---- MODULE Spec2Model ----
(***************************************************************************)
(* A model of package pzlog (src/pzlog/log.go).  The file holds two        *)
(* near-duplicate implementations of the package: lines 1-219 (the        *)
(* configuration embeds lumberjack.Logger and has an Encoder field) and    *)
(* lines 221-411 (the flattened configuration).  Definitions of the second *)
(* implementation carry the suffix 2.                                      *)
(*                                                                         *)
(* Strings whose characters matter (level names) are sequences of          *)
(* one-character strings; time layouts are sequences of layout tokens.     *)
(***************************************************************************)
EXTENDS Integers, Sequences, FiniteSets, TLC

\* ------------------------------------------------------------------ bounds
MaxInt == 1          \* rotation parameters are drawn from -MaxInt..MaxInt
MaxApply == 2        \* how often setDefaultValue is applied to one config
MaxEmits == 2        \* emission calls made on one logger
MaxRequests == 2     \* requests handled, concurrently, by the middleware
MaxTime == 2         \* the clock runs from 0 to MaxTime
NumLoggers == 2      \* loggers built with PrintConsole for concurrent use
NumThreads == 2      \* goroutines emitting concurrently
Chunks == 2          \* write(2) calls one os.Stdout.Write may take

\* ------------------------------------------------------------- characters
LowerLetters == <<"a","b","c","d","e","f","g","h","i","j","k","l","m",
                  "n","o","p","q","r","s","t","u","v","w","x","y","z">>
UpperLetters == <<"A","B","C","D","E","F","G","H","I","J","K","L","M",
                  "N","O","P","Q","R","S","T","U","V","W","X","Y","Z">>

\* unicode.ToLower on one ASCII character
ToLowerRune(c) ==
    IF \E i \in 1..26 : UpperLetters[i] = c
    THEN LowerLetters[CHOOSE i \in 1..26 : UpperLetters[i] = c]
    ELSE c

\* strings.ToLower
ToLower(s) == [i \in 1..Len(s) |-> ToLowerRune(s[i])]

\* ----------------------------------------------------------------- levels
DebugLevel == -1
InfoLevel == 0
WarnLevel == 1
ErrorLevel == 2
DPanicLevel == 3
PanicLevel == 4
FatalLevel == 5

Levels == DebugLevel..FatalLevel

s_debug == <<"d","e","b","u","g">>
s_info == <<"i","n","f","o">>
s_warn == <<"w","a","r","n">>
s_error == <<"e","r","r","o","r">>
s_dpanic == <<"d","p","a","n","i","c">>
s_panic == <<"p","a","n","i","c">>
s_fatal == <<"f","a","t","a","l">>

\* the package-level registry m
m == [k \in {s_debug, s_info, s_warn, s_error, s_dpanic, s_panic, s_fatal} |->
        CASE k = s_debug -> DebugLevel
          [] k = s_info -> InfoLevel
          [] k = s_warn -> WarnLevel
          [] k = s_error -> ErrorLevel
          [] k = s_dpanic -> DPanicLevel
          [] k = s_panic -> PanicLevel
          [] k = s_fatal -> FatalLevel]

\* ----------------------------------------------------------- time layouts
logTmFmt == <<"2006","-","01","-","02"," ","15",":","04",":","05">>

\* ---------------------------------------------------------- configuration
DefaultFilename == "./logs/pzlog.log"
DefaultMaxSize == 100
DefaultMaxBackups == 10
DefaultMaxAge == 30

NewDefaultConfig ==
    [Filename |-> "./logs/pzlog.log", MaxSize |-> 100, MaxBackups |-> 10,
     MaxAge |-> 30, TimeFormat |-> <<>>, LogLevel |-> <<>>,
     PrintConsole |-> FALSE, Encoder |-> ""]

NewDefaultConfig2 ==
    [Filename |-> "./logs/pzlog.log", TimeFormat |-> logTmFmt,
     LogLevel |-> <<>>, PrintConsole |-> FALSE,
     MaxSize |-> 100, MaxBackups |-> 10, MaxAge |-> 30]

\* the level-name tail shared by both setDefaultValue bodies
DefaultLogLevel(config) ==
    LET ok == ToLower(config.LogLevel) \in DOMAIN m
    IN  IF config.LogLevel = <<>> \/ ~ok
        THEN [config EXCEPT !.LogLevel = s_info]
        ELSE config

\* a copy/paste slip: the MaxSize default reads MaxBackups before it is set
setDefaultValue_slip(config) ==
    LET c1 == IF config.Filename = ""
              THEN [config EXCEPT !.Filename = DefaultFilename] ELSE config
        c2 == IF c1.TimeFormat = <<>>
              THEN [c1 EXCEPT !.TimeFormat = logTmFmt] ELSE c1
        c3 == IF c2.MaxSize < 0
              THEN [c2 EXCEPT !.MaxSize = c2.MaxBackups] ELSE c2
        c4 == IF c3.MaxBackups < 0
              THEN [c3 EXCEPT !.MaxBackups = DefaultMaxBackups] ELSE c3
        c5 == IF c4.MaxAge < 0
              THEN [c4 EXCEPT !.MaxAge = DefaultMaxAge] ELSE c4
        c6 == IF c5.Encoder = ""
              THEN [c5 EXCEPT !.Encoder = "json"] ELSE c5
    IN  DefaultLogLevel(c6)

\* an off-by-one slip: zero is treated like a negative value
setDefaultValue_zero(config) ==
    LET c1 == IF config.Filename = ""
              THEN [config EXCEPT !.Filename = DefaultFilename] ELSE config
        c2 == IF c1.TimeFormat = <<>>
              THEN [c1 EXCEPT !.TimeFormat = logTmFmt] ELSE c1
        c3 == IF c2.MaxSize <= 0
              THEN [c2 EXCEPT !.MaxSize = DefaultMaxSize] ELSE c2
        c4 == IF c3.MaxBackups <= 0
              THEN [c3 EXCEPT !.MaxBackups = DefaultMaxBackups] ELSE c3
        c5 == IF c4.MaxAge <= 0
              THEN [c4 EXCEPT !.MaxAge = DefaultMaxAge] ELSE c4
        c6 == IF c5.Encoder = ""
              THEN [c5 EXCEPT !.Encoder = "json"] ELSE c5
    IN  DefaultLogLevel(c6)

setDefaultValue(config) ==
    LET c1 == IF config.Filename = ""
              THEN [config EXCEPT !.Filename = DefaultFilename] ELSE config
        c2 == IF c1.TimeFormat = <<>>
              THEN [c1 EXCEPT !.TimeFormat = logTmFmt] ELSE c1
        c3 == IF c2.MaxSize < 0
              THEN [c2 EXCEPT !.MaxSize = DefaultMaxSize] ELSE c2
        c4 == IF c3.MaxBackups < 0
              THEN [c3 EXCEPT !.MaxBackups = DefaultMaxBackups] ELSE c3
        c5 == IF c4.MaxAge < 0
              THEN [c4 EXCEPT !.MaxAge = DefaultMaxAge] ELSE c4
        c6 == IF c5.Encoder = ""
              THEN [c5 EXCEPT !.Encoder = "json"] ELSE c5
    IN  DefaultLogLevel(c6)

setDefaultValue2(config) ==
    LET c1 == IF config.Filename = ""
              THEN [config EXCEPT !.Filename = DefaultFilename] ELSE config
        c2 == IF c1.TimeFormat = <<>>
              THEN [c1 EXCEPT !.TimeFormat = logTmFmt] ELSE c1
        c3 == IF c2.MaxSize < 0
              THEN [c2 EXCEPT !.MaxSize = DefaultMaxSize] ELSE c2
        c4 == IF c3.MaxBackups < 0
              THEN [c3 EXCEPT !.MaxBackups = DefaultMaxBackups] ELSE c3
        c5 == IF c4.MaxAge < 0
              THEN [c4 EXCEPT !.MaxAge = DefaultMaxAge] ELSE c4
    IN  DefaultLogLevel(c5)

\* a copy/paste slip in the switch: the warn case returns the info level
LevelSwitch_copy(level) ==
    CASE level = s_debug -> DebugLevel
      [] level = s_info -> InfoLevel
      [] level = s_warn -> InfoLevel
      [] level = s_error -> ErrorLevel
      [] level = s_dpanic -> DPanicLevel
      [] level = s_panic -> PanicLevel
      [] level = s_fatal -> FatalLevel
      [] OTHER -> InfoLevel

\* the switch of getLevelEnabler, applied to an already lower-cased name
LevelSwitch(level) ==
    CASE level = s_debug -> DebugLevel
      [] level = s_info -> InfoLevel
      [] level = s_warn -> WarnLevel
      [] level = s_error -> ErrorLevel
      [] level = s_dpanic -> DPanicLevel
      [] level = s_panic -> PanicLevel
      [] level = s_fatal -> FatalLevel
      [] OTHER -> InfoLevel

\* a slip: the switch is applied to the name as written, not lower-cased
getLevelEnabler_raw(config) == LevelSwitch(config.LogLevel)

getLevelEnabler(config) == LevelSwitch(ToLower(config.LogLevel))

getLevelEnabler2(config) == LevelSwitch(ToLower(config.LogLevel))


\* ------------------------------------------------------ rendering a record
\* time.Time.Format: every layout token is replaced by the instant's value
\* for it, every other element of the layout is copied
TokenValue(tok, t) ==
    CASE tok = "2006" -> t.year
      [] tok = "01" -> t.month
      [] tok = "02" -> t.day
      [] tok = "15" -> t.hour
      [] tok = "04" -> t.minute
      [] tok = "05" -> t.second
      [] tok = ".000" -> t.milli
      [] tok = "Z0700" -> t.zone
      [] OTHER -> tok

Format(layout, t) == [i \in 1..Len(layout) |-> TokenValue(layout[i], t)]

\* zapcore.Level.CapitalString
CapitalString(l) ==
    CASE l = DebugLevel -> "DEBUG"
      [] l = InfoLevel -> "INFO"
      [] l = WarnLevel -> "WARN"
      [] l = ErrorLevel -> "ERROR"
      [] l = DPanicLevel -> "DPANIC"
      [] l = PanicLevel -> "PANIC"
      [] l = FatalLevel -> "FATAL"

cEncodeLevel(l) == CapitalString(l)
cEncodeTime(t) == Format(logTmFmt, t)

cEncodeLevel2(l) == <<"[", CapitalString(l), "]">>
cEncodeTime2(t) == <<"[">> \o Format(logTmFmt, t) \o <<"]">>

\* the layout of zapcore.ISO8601TimeEncoder, the time encoder of
\* zap.NewDevelopmentEncoderConfig
iso8601Layout == <<"2006","-","01","-","02","T","15",":","04",":","05",".000","Z0700">>

\* An encoder object: its layout and the names of its level and time
\* renderers (EncoderConfig.EncodeLevel, EncoderConfig.EncodeTime).
getEncoder(types) ==
    IF types = "console"
    THEN [kind |-> "console", EncodeLevel |-> "cEncodeLevel",
          EncodeTime |-> "cEncodeTime", LineEnding |-> "\n"]
    ELSE [kind |-> "json", EncodeLevel |-> "cEncodeLevel",
          EncodeTime |-> "cEncodeTime", LineEnding |-> "\n"]

getEncoder2 ==
    [kind |-> "console", EncodeLevel |-> "cEncodeLevel2",
     EncodeTime |-> "cEncodeTime2", LineEnding |-> "  "]

getConsoleEncoder2 ==
    [kind |-> "console", EncodeLevel |-> "CapitalLevelEncoder",
     EncodeTime |-> "ISO8601TimeEncoder", LineEnding |-> "\n"]

\* the lumberjack.Logger behind the file write target
getWriteSyncer(config) ==
    [Filename |-> config.Filename, MaxSize |-> config.MaxSize,
     MaxBackups |-> config.MaxBackups, MaxAge |-> config.MaxAge]

GetWriteSyncer2(config) ==
    [Filename |-> config.Filename, MaxSize |-> config.MaxSize,
     MaxBackups |-> config.MaxBackups, MaxAge |-> config.MaxAge]

\* Encoder.EncodeEntry: the serialized record, by the encoder's renderers
EncodeEntry(enc, ent) ==
    [kind |-> enc.kind,
     level |-> CASE enc.EncodeLevel = "cEncodeLevel" -> cEncodeLevel(ent.lvl)
                 [] enc.EncodeLevel = "cEncodeLevel2" -> cEncodeLevel2(ent.lvl)
                 [] enc.EncodeLevel = "CapitalLevelEncoder" -> CapitalString(ent.lvl),
     ts |-> CASE enc.EncodeTime = "cEncodeTime" -> cEncodeTime(ent.t)
              [] enc.EncodeTime = "cEncodeTime2" -> cEncodeTime2(ent.t)
              [] enc.EncodeTime = "ISO8601TimeEncoder" -> Format(iso8601Layout, ent.t),
     msg |-> ent.msg,
     LineEnding |-> enc.LineEnding]

\* zapcore.AddSync(lumberJackLogger): the file write target; zap adds no
\* mutex of its own (lumberjack serializes its writes itself)
AddSync(w) == [target |-> w, mutex |-> FALSE]

\* the console write target without the mutex, as zapcore.AddSync(os.Stdout)
Lock_none(w) == [target |-> w, mutex |-> FALSE]

\* zapcore.Lock(os.Stdout): a new write target that takes its own mutex
\* around every Write; each call of Lock makes a new mutex
Lock(w) == [target |-> w, mutex |-> TRUE]

\* zapcore.NewCore(enc, ws, enab): enc is the address of an encoder object
NewCore(enc, ws, enab) == [enc |-> enc, out |-> ws, gate |-> enab]

\* zapcore.Level.Enabled: the severity gate of a core
Enabled(gate, lvl) == lvl >= gate

\* the console core is built when PrintConsole is false (inverted test)
NewCoreSet_inverted(PrintConsole, Encoder, ConsoleEncoder, LevelEnabler) ==
    IF ~PrintConsole
    THEN <<NewCore(Encoder, AddSync("file"), LevelEnabler),
           NewCore(ConsoleEncoder, Lock("stdout"), LevelEnabler)>>
    ELSE <<NewCore(Encoder, AddSync("file"), LevelEnabler)>>

\* the core set GetLogger composes: the file core, and with PrintConsole a
\* tee of the file core and the console core.  Encoder and ConsoleEncoder
\* are addresses: the first implementation passes its only encoder twice.
NewCoreSet(PrintConsole, Encoder, ConsoleEncoder, LevelEnabler) ==
    IF PrintConsole
    THEN <<NewCore(Encoder, AddSync("file"), LevelEnabler),
           NewCore(ConsoleEncoder, Lock("stdout"), LevelEnabler)>>
    ELSE <<NewCore(Encoder, AddSync("file"), LevelEnabler)>>

\* ------------------------------------------------------------------ state
VARIABLES
    impl,       \* which implementation of the package is linked: 1 or 2
    passed,     \* the configuration as the caller filled it in
    config,     \* the configuration struct behind the caller's pointer
    applied,    \* number of setDefaultValue calls made on config
    level,      \* the results getLevelEnabler has returned so far: {} or {l}
    logger,     \* the logger GetLogger returned, or NoLogger
    heap,       \* the encoder objects allocated so far, by address
    encCalls,   \* per encoder object, the number of EncodeEntry calls
    fileSink,   \* the lumberjack.Logger behind the file write target
    fileOut,    \* what the file write target has received, in order
    stdout,     \* what standard output has received, in order
    emitted,    \* the emission calls made on the logger, in order
    globalL,    \* zap's process-global logger, the one zap.L() returns
    reqs,       \* per request: the gin context and GinLogger's locals
    now,        \* the clock time.Now() reads
    ginLog,     \* the emission calls GinLogger has made, in order
    loggers,    \* the loggers built for concurrent use, in order of construction
    mu,         \* per logger, the goroutine holding its console mutex, or 0
    fdmu,       \* the goroutine holding the write lock of os.Stdout, or 0
    thr         \* per goroutine, where it is in a console write

normVars == <<impl, passed, config, applied, level>>
logVars == <<logger, heap, encCalls, fileSink, fileOut, stdout, emitted>>
ginVars == <<globalL, reqs, now, ginLog>>
vars == <<impl, passed, config, applied, level,
          logger, heap, encCalls, fileSink, fileOut, stdout, emitted,
          globalL, reqs, now, ginLog, loggers, mu, fdmu, thr>>
concVars == <<loggers, mu, fdmu, thr>>

NoLogger == [cores |-> <<>>, built |-> FALSE]
NoSink == [Filename |-> ""]
Nil == [nil |-> TRUE]

\* zap.NewNop(), the global logger until zap.ReplaceGlobals is called: no
\* core, so nothing it is given is encoded or written
NopLogger == [cores |-> <<>>, built |-> TRUE]

InitGinVars ==
    /\ globalL = NopLogger
    /\ reqs = <<>>
    /\ now = 0
    /\ ginLog = <<>>

InitConcVars ==
    /\ loggers = <<>>
    /\ mu = <<>>
    /\ fdmu = 0
    /\ thr = <<>>

InitLogVars ==
    /\ logger = NoLogger
    /\ heap = <<>>
    /\ encCalls = <<>>
    /\ fileSink = NoSink
    /\ fileOut = <<>>
    /\ stdout = <<>>
    /\ emitted = <<>>

NoLevel == {}

\* ------------------------------------------------------------------ inputs
ToUpperRune(c) ==
    IF \E i \in 1..26 : LowerLetters[i] = c
    THEN UpperLetters[CHOOSE i \in 1..26 : LowerLetters[i] = c]
    ELSE c

UpperAt(s, P) == [i \in 1..Len(s) |-> IF i \in P THEN ToUpperRune(s[i]) ELSE s[i]]

SevenNames == <<s_debug, s_info, s_warn, s_error, s_dpanic, s_panic, s_fatal>>

\* each name in lower case, upper case, capitalised, with the odd positions
\* in upper case and with the last letter in upper case
CaseVariants(s) ==
    { UpperAt(s, P) : P \in { {}, 1..Len(s), {1}, {Len(s)},
                              {i \in 1..Len(s) : i % 2 = 1} } }

UnknownNames ==
    { <<"t","r","a","c","e">>, <<"w","a","r","n","i","n","g">>,
      <<"i","n","f">>, <<"I","N","F","O","O">>, <<" ","i","n","f","o">>,
      <<"e","r","r">>, <<"0">> }

LevelInputs ==
    {<<>>} \cup UnknownNames \cup UNION { CaseVariants(SevenNames[k]) : k \in 1..7 }

IntInputs == (-MaxInt)..MaxInt

altLayout == <<"2006","/","01","/","02">>

ConfigInputs ==
    [Filename : {"", "./app.log"}, MaxSize : IntInputs, MaxBackups : IntInputs,
     MaxAge : IntInputs, TimeFormat : {<<>>, altLayout}, LogLevel : LevelInputs,
     PrintConsole : BOOLEAN, Encoder : {"", "console"}]

ConfigInputs2 ==
    [Filename : {"", "./app.log"}, TimeFormat : {<<>>, altLayout},
     LogLevel : LevelInputs, PrintConsole : BOOLEAN,
     MaxSize : IntInputs, MaxBackups : IntInputs, MaxAge : IntInputs]

\* ------------------------------------------------- normalisation pipeline
\* The first statements of GetLogger on a caller-owned configuration:
\* setDefaultValue mutates the struct in place (a second GetLogger call with
\* the same pointer applies it again), getLevelEnabler reads the result.
InitNorm ==
    /\ impl \in {1, 2}
    /\ passed \in (IF impl = 1 THEN ConfigInputs ELSE ConfigInputs2)
    /\ config = passed
    /\ applied = 0
    /\ level = NoLevel
    /\ InitLogVars
    /\ InitGinVars
    /\ InitConcVars

CallSetDefaultValue ==
    /\ impl = 1
    /\ applied < MaxApply
    /\ config' = setDefaultValue(config)
    /\ applied' = applied + 1
    /\ UNCHANGED <<impl, passed, level>>
    /\ UNCHANGED logVars
    /\ UNCHANGED ginVars
    /\ UNCHANGED concVars

CallSetDefaultValue2 ==
    /\ impl = 2
    /\ applied < MaxApply
    /\ config' = setDefaultValue2(config)
    /\ applied' = applied + 1
    /\ UNCHANGED <<impl, passed, level>>
    /\ UNCHANGED logVars
    /\ UNCHANGED ginVars
    /\ UNCHANGED concVars

CallGetLevelEnabler ==
    /\ impl = 1
    /\ applied >= 1
    /\ level' = {getLevelEnabler(config)}
    /\ UNCHANGED <<impl, passed, config, applied>>
    /\ UNCHANGED logVars
    /\ UNCHANGED ginVars
    /\ UNCHANGED concVars

CallGetLevelEnabler2 ==
    /\ impl = 2
    /\ applied >= 1
    /\ level' = {getLevelEnabler2(config)}
    /\ UNCHANGED <<impl, passed, config, applied>>
    /\ UNCHANGED logVars
    /\ UNCHANGED ginVars
    /\ UNCHANGED concVars

NextNorm ==
    \/ CallSetDefaultValue
    \/ CallSetDefaultValue2
    \/ CallGetLevelEnabler
    \/ CallGetLevelEnabler2

SpecNorm == InitNorm /\ [][NextNorm]_vars

\* --------------------------------------------------------- C1, C2 and C3
\* s and the canonical name n are the same word up to ASCII letter case
EqualFold(s, n) ==
    /\ Len(s) = Len(n)
    /\ \A i \in 1..Len(n) : s[i] = n[i] \/ s[i] = ToUpperRune(n[i])

\* the level a name stands for: the rank of the canonical name it folds to
\* in debug < info < warn < error < dpanic < panic < fatal, info otherwise
NamedLevel(s) ==
    IF \E k \in 1..7 : EqualFold(s, SevenNames[k])
    THEN (CHOOSE k \in 1..7 : EqualFold(s, SevenNames[k])) - 2
    ELSE 0

\* C1: the minimum level getLevelEnabler returns after setDefaultValue is the
\* level the caller named (in any letter case), and info when the name is
\* empty or none of the seven names.
C1_LevelResolution ==
    level # NoLevel => level = {NamedLevel(passed.LogLevel)}

C1_Witness ==
    /\ level = {FatalLevel}
    /\ passed.LogLevel = UpperAt(s_fatal, {1, 3, 5})

\* C2: after setDefaultValue each of MaxSize, MaxBackups, MaxAge is its
\* default (100, 10, 30) if the caller's value was negative and the caller's
\* value otherwise, whatever the other two fields hold.
C2_RotationDefaults ==
    applied >= 1 =>
        /\ config.MaxSize = (IF passed.MaxSize < 0 THEN 100 ELSE passed.MaxSize)
        /\ config.MaxBackups = (IF passed.MaxBackups < 0 THEN 10 ELSE passed.MaxBackups)
        /\ config.MaxAge = (IF passed.MaxAge < 0 THEN 30 ELSE passed.MaxAge)

C2_Witness ==
    /\ applied >= 1
    /\ passed.MaxSize < 0 /\ passed.MaxBackups = 0 /\ passed.MaxAge > 0
    /\ config.MaxSize = 100 /\ config.MaxBackups = 0 /\ config.MaxAge = passed.MaxAge

\* C3: setDefaultValue applied to a configuration it has already been
\* applied to changes no field.
C3_Idempotent ==
    [][(applied >= 1 /\ applied' = applied + 1) => config' = config]_vars

C3_Witness ==
    /\ applied = 2
    /\ config # passed

\* ------------------------------------------------ construction and emission
Instants ==
    { [year |-> "2026", month |-> "11", day |-> "05", hour |-> "09",
       minute |-> "07", second |-> "03", milli |-> ".250", zone |-> "+0100"],
      [year |-> "2027", month |-> "01", day |-> "31", hour |-> "23",
       minute |-> "59", second |-> "58", milli |-> ".001", zone |-> "Z"] }

Messages == {"msg"}

LogLevelInputs ==
    { <<>>, UpperAt(s_warn, 1..4), s_debug, UpperAt(s_fatal, {1}),
      <<"t","r","a","c","e">> }

LogConfigInputs ==
    [Filename : {""}, MaxSize : {-1}, MaxBackups : {0}, MaxAge : {7},
     TimeFormat : {<<>>, altLayout}, LogLevel : LogLevelInputs,
     PrintConsole : BOOLEAN, Encoder : {"", "console"}]

LogConfigInputs2 ==
    [Filename : {""}, TimeFormat : {<<>>, altLayout},
     LogLevel : LogLevelInputs, PrintConsole : BOOLEAN,
     MaxSize : {-1}, MaxBackups : {0}, MaxAge : {7}]

InitLog ==
    /\ impl \in {1, 2}
    /\ passed \in (IF impl = 1 THEN LogConfigInputs ELSE LogConfigInputs2) \cup {Nil}
    /\ config = passed
    /\ applied = 0
    /\ level = NoLevel
    /\ InitLogVars
    /\ InitGinVars
    /\ InitConcVars

\* GetLogger(config): the normalized configuration struct, the encoder
\* objects it allocates (at the addresses after those of h), the lumberjack
\* logger behind the file write target, the level and the logger returned
GetLogger(cfgArg, h) ==
    LET cfg == setDefaultValue(IF cfgArg = Nil THEN NewDefaultConfig ELSE cfgArg)
        Encoder == Len(h) + 1
        WriteSyncer == getWriteSyncer(cfg)
        LevelEnabler == getLevelEnabler(cfg)
    IN  [config |-> cfg,
         allocated |-> <<getEncoder(cfg.Encoder)>>,
         WriteSyncer |-> WriteSyncer,
         LevelEnabler |-> LevelEnabler,
         logger |-> [cores |-> NewCoreSet(cfg.PrintConsole, Encoder, Encoder,
                                          LevelEnabler),
                     built |-> TRUE]]

GetLogger2(cfgArg, h) ==
    LET cfg == setDefaultValue2(IF cfgArg = Nil THEN NewDefaultConfig2 ELSE cfgArg)
        Encoder == Len(h) + 1
        WriteSyncer == GetWriteSyncer2(cfg)
        LevelEnabler == getLevelEnabler2(cfg)
        ConsoleEncoder == Len(h) + 2
    IN  [config |-> cfg,
         allocated |-> <<getEncoder2, getConsoleEncoder2>>,
         WriteSyncer |-> WriteSyncer,
         LevelEnabler |-> LevelEnabler,
         logger |-> [cores |-> NewCoreSet(cfg.PrintConsole, Encoder,
                                          ConsoleEncoder, LevelEnabler),
                     built |-> TRUE]]

\* the state a GetLogger call leaves behind
Constructed(r) ==
    /\ config' = r.config
    /\ applied' = applied + 1
    /\ level' = {r.LevelEnabler}
    /\ heap' = heap \o r.allocated
    /\ encCalls' = encCalls \o [i \in 1..Len(r.allocated) |-> 0]
    /\ fileSink' = r.WriteSyncer
    /\ logger' = r.logger

CallGetLogger ==
    /\ impl = 1
    /\ ~logger.built
    /\ Constructed(GetLogger(config, heap))
    /\ UNCHANGED <<impl, passed, fileOut, stdout, emitted>>
    /\ UNCHANGED ginVars
    /\ UNCHANGED concVars

CallGetLogger2 ==
    /\ impl = 2
    /\ ~logger.built
    /\ Constructed(GetLogger2(config, heap))
    /\ UNCHANGED <<impl, passed, fileOut, stdout, emitted>>
    /\ UNCHANGED ginVars
    /\ UNCHANGED concVars

\* the cores of lg that accept ent and write to out, in tee order
Accepting(lg, out, ent) ==
    SelectSeq(lg.cores, LAMBDA c : c.out.target = out /\ Enabled(c.gate, ent.lvl))

\* what lg's cores write to out for ent: each accepting core encodes the
\* entry with its own encoder and hands the result to its write target
Written(lg, out, ent) ==
    LET cs == Accepting(lg, out, ent)
    IN  [i \in 1..Len(cs) |-> [ent |-> ent, text |-> EncodeEntry(heap[cs[i].enc], ent)]]

\* Logger.Check(lvl, msg).Write(): the effect of one emission through lg
Write(lg, ent) ==
    /\ fileOut' = fileOut \o Written(lg, "file", ent)
    /\ stdout' = stdout \o Written(lg, "stdout", ent)
    /\ encCalls' = [a \in DOMAIN encCalls |->
                      encCalls[a]
                      + Len(SelectSeq(Accepting(lg, "file", ent), LAMBDA c : c.enc = a))
                      + Len(SelectSeq(Accepting(lg, "stdout", ent), LAMBDA c : c.enc = a))]

Emit ==
    /\ logger.built
    /\ Len(emitted) < MaxEmits
    /\ \E lvl \in Levels, t \in Instants, msg \in Messages :
         LET ent == [lvl |-> lvl, t |-> t, msg |-> msg]
         IN  /\ emitted' = Append(emitted, ent)
             /\ Write(logger, ent)
    /\ UNCHANGED <<impl, passed, config, applied, level, logger, heap, fileSink>>
    /\ UNCHANGED ginVars
    /\ UNCHANGED concVars

NextLog ==
    \/ CallGetLogger
    \/ CallGetLogger2
    \/ Emit

SpecLog == InitLog /\ [][NextLog]_vars

\* ---------------------------------------------------- C4, C5, C8 and C10
\* the minimum level the caller configured
MinLevel == IF passed = Nil THEN 0 ELSE NamedLevel(passed.LogLevel)

WantsConsole == passed # Nil /\ passed.PrintConsole

Ents(out) == [i \in 1..Len(out) |-> out[i].ent]

AtOrAbove == SelectSeq(emitted, LAMBDA e : e.lvl >= MinLevel)

RECURSIVE SumUpTo(_, _)
SumUpTo(f, n) == IF n = 0 THEN 0 ELSE f[n] + SumUpTo(f, n - 1)

\* C4: no record below the configured minimum level is in the file write
\* target or in standard output, and the encoders have been invoked once per
\* core for each record at or above the minimum and never for another one.
C4_BelowMinimumDropped ==
    /\ \A i \in 1..Len(fileOut) : fileOut[i].ent.lvl >= MinLevel
    /\ \A i \in 1..Len(stdout) : stdout[i].ent.lvl >= MinLevel
    /\ SumUpTo(encCalls, Len(encCalls))
         = Len(AtOrAbove) * (IF WantsConsole THEN 2 ELSE 1)

C4_Witness ==
    /\ Len(emitted) = 2
    /\ emitted[1].lvl < MinLevel
    /\ emitted[2].lvl >= MinLevel
    /\ WantsConsole
    /\ Len(fileOut) = 1 /\ Len(stdout) = 1

\* C5: the file write target has received exactly the records emitted at or
\* above the configured minimum level, in order; standard output has
\* received the same records if PrintConsole is true and nothing otherwise.
C5_SinksReceive ==
    /\ Ents(fileOut) = AtOrAbove
    /\ Ents(stdout) = (IF WantsConsole THEN AtOrAbove ELSE <<>>)

C5_Witness ==
    /\ WantsConsole
    /\ Len(AtOrAbove) = 2
    /\ Len(fileOut) = 2 /\ Len(stdout) = 2

\* C8: every record the sinks received carries its instant rendered with the
\* normalized configuration's TimeFormat.
C8_TimeFormatUsed ==
    /\ \A i \in 1..Len(fileOut) :
         fileOut[i].text.ts = Format(config.TimeFormat, fileOut[i].ent.t)
    /\ \A i \in 1..Len(stdout) :
         stdout[i].text.ts = Format(config.TimeFormat, stdout[i].ent.t)

\* C10: with PrintConsole the logger has exactly two cores with the same
\* severity gate and with two distinct encoder objects.
C10_SeparateEncoders ==
    (logger.built /\ WantsConsole) =>
        /\ Len(logger.cores) = 2
        /\ logger.cores[1].gate = logger.cores[2].gate
        /\ logger.cores[1].enc # logger.cores[2].enc

\* ------------------------------------------------------- request middleware
\* what the rest of the chain may leave behind in the gin context
Rewrites ==
    { [Path |-> "/internal/items", RawQuery |-> "id=5", status |-> 200,
       errors |-> ""],
      [Path |-> "/internal/items", RawQuery |-> "", status |-> 404,
       errors |-> "Error #01: not found\n"] }

GinLevelInputs == { <<>>, UpperAt(s_error, {1}) }

GinConfigInputs ==
    [Filename : {""}, MaxSize : {-1}, MaxBackups : {0}, MaxAge : {7},
     TimeFormat : {<<>>}, LogLevel : GinLevelInputs,
     PrintConsole : BOOLEAN, Encoder : {""}]

GinConfigInputs2 ==
    [Filename : {""}, TimeFormat : {<<>>},
     LogLevel : GinLevelInputs, PrintConsole : BOOLEAN,
     MaxSize : {-1}, MaxBackups : {0}, MaxAge : {7}]

\* a request as it reaches the middleware; arrived remembers its URL
NewRequest(p, q) ==
    [pc |-> "new", Path |-> p, RawQuery |-> q, Method |-> "GET",
     status |-> 200, errors |-> "", arrived |-> [Path |-> p, RawQuery |-> q],
     start |-> 0, path |-> "", query |-> ""]

\* the application has built its logger: the state after GetLogger(passed)
\* returned, with MaxRequests requests about to reach the middleware
InitGin ==
    /\ impl \in {1, 2}
    /\ passed \in (IF impl = 1 THEN GinConfigInputs ELSE GinConfigInputs2)
    /\ LET r == IF impl = 1 THEN GetLogger(passed, <<>>) ELSE GetLogger2(passed, <<>>)
       IN  /\ config = r.config
           /\ applied = 1
           /\ level = {r.LevelEnabler}
           /\ heap = r.allocated
           /\ encCalls = [i \in 1..Len(r.allocated) |-> 0]
           /\ fileSink = r.WriteSyncer
           /\ logger = r.logger
    /\ fileOut = <<>>
    /\ stdout = <<>>
    /\ emitted = <<>>
    /\ globalL = NopLogger
    /\ reqs = [r \in 1..MaxRequests |-> NewRequest("/items", "id=5")]
    /\ now = 0
    /\ ginLog = <<>>
    /\ InitConcVars

\* start := time.Now(); path := c.Request.URL.Path;
\* query := c.Request.URL.RawQuery; then c.Next() is entered
GinLoggerEnter(r) ==
    /\ reqs[r].pc = "new"
    /\ reqs' = [reqs EXCEPT ![r].pc = "next", ![r].start = now,
                            ![r].path = reqs[r].Path,
                            ![r].query = reqs[r].RawQuery]
    /\ UNCHANGED <<globalL, now, ginLog>>
    /\ UNCHANGED normVars
    /\ UNCHANGED concVars
    /\ UNCHANGED logVars

\* inside c.Next(): the rest of the chain may rewrite the request URL, adds
\* private errors and sets the response status
Downstream(r) ==
    /\ reqs[r].pc = "next"
    /\ \E o \in Rewrites :
         reqs' = [reqs EXCEPT ![r].Path = o.Path, ![r].RawQuery = o.RawQuery,
                              ![r].status = o.status, ![r].errors = o.errors]
    /\ UNCHANGED <<globalL, now, ginLog>>
    /\ UNCHANGED normVars
    /\ UNCHANGED concVars
    /\ UNCHANGED logVars

\* c.Next() returns
NextReturns(r) ==
    /\ reqs[r].pc = "next"
    /\ reqs' = [reqs EXCEPT ![r].pc = "returned"]
    /\ UNCHANGED <<globalL, now, ginLog>>
    /\ UNCHANGED normVars
    /\ UNCHANGED concVars
    /\ UNCHANGED logVars

\* the fields are built from the request as it is when the record is emitted
GinFields_late(rq, cost) ==
    [status |-> rq.status, method |-> rq.Method, path |-> rq.Path,
     query |-> rq.RawQuery, ip |-> "192.0.2.1", useragent |-> "curl",
     errors |-> rq.errors, cost |-> cost]

\* the fields of the record, from the locals path and query
GinFields(rq, cost) ==
    [status |-> rq.status, method |-> rq.Method, path |-> rq.path,
     query |-> rq.query, ip |-> "192.0.2.1", useragent |-> "curl",
     errors |-> rq.errors, cost |-> cost]

\* cost := time.Since(start); zap.L().Info(path, fields...)
GinLoggerEmit(r) ==
    /\ reqs[r].pc = "returned"
    /\ LET cost == now - reqs[r].start
           ent == [lvl |-> InfoLevel, t |-> now, msg |-> reqs[r].path,
                   fields |-> GinFields(reqs[r], cost)]
       IN  /\ ginLog' = Append(ginLog, [req |-> r, ent |-> ent])
           /\ Write(globalL, ent)
    /\ reqs' = [reqs EXCEPT ![r].pc = "done"]
    /\ UNCHANGED <<globalL, now>>
    /\ UNCHANGED normVars
    /\ UNCHANGED concVars
    /\ UNCHANGED <<logger, heap, fileSink, emitted>>

Tick ==
    /\ now < MaxTime
    /\ now' = now + 1
    /\ UNCHANGED <<globalL, reqs, ginLog>>
    /\ UNCHANGED normVars
    /\ UNCHANGED concVars
    /\ UNCHANGED logVars

NextGin ==
    \/ \E r \in 1..MaxRequests : GinLoggerEnter(r)
    \/ \E r \in 1..MaxRequests : Downstream(r)
    \/ \E r \in 1..MaxRequests : NextReturns(r)
    \/ \E r \in 1..MaxRequests : GinLoggerEmit(r)
    \/ Tick

SpecGin == InitGin /\ [][NextGin]_vars

\* ------------------------------------------------------------- C6 and C7
RecordsOf(r) == SelectSeq(ginLog, LAMBDA e : e.req = r)

\* C6: a request has no record until c.Next() has returned and the
\* middleware has emitted, and exactly one afterwards; the record is at info
\* level and its path and query are those the request had when it reached
\* the middleware, whatever c.Next() did to the request URL.
C6_OneRecordAfterNext ==
    \A r \in DOMAIN reqs :
        /\ Len(RecordsOf(r)) = (IF reqs[r].pc = "done" THEN 1 ELSE 0)
        /\ \A i \in 1..Len(RecordsOf(r)) :
             LET e == RecordsOf(r)[i].ent
             IN  /\ e.lvl = InfoLevel
                 /\ e.msg = reqs[r].arrived.Path
                 /\ e.fields.path = reqs[r].arrived.Path
                 /\ e.fields.query = reqs[r].arrived.RawQuery

C6_Witness ==
    \E r \in DOMAIN reqs :
        /\ reqs[r].pc = "done"
        /\ reqs[r].Path # reqs[r].arrived.Path
        /\ reqs[r].RawQuery # reqs[r].arrived.RawQuery
        /\ Len(RecordsOf(r)) = 1

\* C7: once a request has been handled, its record is in the file write
\* target of the logger GetLogger returned, and in standard output when
\* PrintConsole is true, provided the logger's minimum level is at most info.
C7_MiddlewareUsesLogger ==
    \A r \in DOMAIN reqs :
        (logger.built /\ MinLevel <= 0 /\ reqs[r].pc = "done") =>
            /\ \E i \in 1..Len(fileOut) : fileOut[i].ent = RecordsOf(r)[1].ent
            /\ WantsConsole =>
                 \E i \in 1..Len(stdout) : stdout[i].ent = RecordsOf(r)[1].ent

\* ------------------------------------------------------ concurrent console
\* NumLoggers successive GetLogger calls: the loggers and the heap they leave
RECURSIVE BuildAll(_, _, _)
BuildAll(n, i, cfg) ==
    IF n = 0 THEN [heap |-> <<>>, loggers |-> <<>>]
    ELSE LET prev == BuildAll(n - 1, i, cfg)
             r == IF i = 1 THEN GetLogger(cfg, prev.heap) ELSE GetLogger2(cfg, prev.heap)
         IN  [heap |-> prev.heap \o r.allocated,
              loggers |-> Append(prev.loggers, r.logger)]

ConcConfig ==
    [Filename |-> "", MaxSize |-> 0, MaxBackups |-> 0, MaxAge |-> 0,
     TimeFormat |-> <<>>, LogLevel |-> <<>>, PrintConsole |-> TRUE,
     Encoder |-> ""]

ConcConfig2 ==
    [Filename |-> "", TimeFormat |-> <<>>, LogLevel |-> <<>>,
     PrintConsole |-> TRUE, MaxSize |-> 0, MaxBackups |-> 0, MaxAge |-> 0]

Idle == [pc |-> "idle", lg |-> 0, rec |-> 0, part |-> 0]

InitConc ==
    /\ impl \in {1, 2}
    /\ passed = (IF impl = 1 THEN ConcConfig ELSE ConcConfig2)
    /\ config = (IF impl = 1 THEN setDefaultValue(passed) ELSE setDefaultValue2(passed))
    /\ applied = NumLoggers
    /\ level = {InfoLevel}
    /\ InitLogVars
    /\ InitGinVars
    /\ loggers = BuildAll(NumLoggers, impl, passed).loggers
    /\ mu = [l \in 1..NumLoggers |-> 0]
    /\ fdmu = 0
    /\ thr = [t \in 1..NumThreads |-> Idle]

\* the write target of the console core of logger l
ConsoleOut(l) ==
    LET cs == SelectSeq(loggers[l].cores, LAMBDA c : c.out.target = "stdout")
    IN  cs[1].out

\* what no step of a console write touches
ConcFrame ==
    /\ UNCHANGED normVars
    /\ UNCHANGED ginVars
    /\ UNCHANGED <<logger, heap, encCalls, fileSink, fileOut>>

\* goroutine t emits a record at or above the gate through logger l; the
\* tee has run the file core and is about to call Write on the console core
ConsoleWriteCall(t, l) ==
    /\ thr[t].pc = "idle"
    /\ Len(emitted) < MaxEmits
    /\ \E c \in 1..Len(loggers[l].cores) : loggers[l].cores[c].out.target = "stdout"
    /\ emitted' = Append(emitted, [thread |-> t, logger |-> l])
    /\ thr' = [thr EXCEPT ![t] = [pc |-> "call", lg |-> l,
                                   rec |-> Len(emitted) + 1, part |-> 0]]
    /\ UNCHANGED <<loggers, mu, fdmu, stdout>>
    /\ ConcFrame

\* lockedWriteSyncer.Write takes the mutex of the write target; a write
\* target without a mutex goes straight to the file
MutexLock(t) ==
    /\ thr[t].pc = "call"
    /\ IF ConsoleOut(thr[t].lg).mutex
       THEN /\ mu[thr[t].lg] = 0
            /\ mu' = [mu EXCEPT ![thr[t].lg] = t]
       ELSE mu' = mu
    /\ thr' = [thr EXCEPT ![t].pc = "inWrite"]
    /\ UNCHANGED <<loggers, fdmu, stdout, emitted>>
    /\ ConcFrame

\* os.Stdout.Write takes the write lock of the file descriptor
FdWriteLock(t) ==
    /\ thr[t].pc = "inWrite"
    /\ fdmu = 0
    /\ fdmu' = t
    /\ thr' = [thr EXCEPT ![t].pc = "writing", ![t].part = 1]
    /\ UNCHANGED <<loggers, mu, stdout, emitted>>
    /\ ConcFrame

\* one write(2) call: the next part of the record reaches standard output
WriteChunk(t) ==
    /\ thr[t].pc = "writing"
    /\ stdout' = Append(stdout, [rec |-> thr[t].rec, part |-> thr[t].part])
    /\ thr' = IF thr[t].part = Chunks
              THEN [thr EXCEPT ![t].pc = "written"]
              ELSE [thr EXCEPT ![t].part = thr[t].part + 1]
    /\ UNCHANGED <<loggers, mu, fdmu, emitted>>
    /\ ConcFrame

\* os.Stdout.Write returns (write lock released), then the mutex is released
WriteReturns(t) ==
    /\ thr[t].pc = "written"
    /\ fdmu' = 0
    /\ mu' = IF mu[thr[t].lg] = t THEN [mu EXCEPT ![thr[t].lg] = 0] ELSE mu
    /\ thr' = [thr EXCEPT ![t] = Idle]
    /\ UNCHANGED <<loggers, stdout, emitted>>
    /\ ConcFrame

NextConc ==
    \/ \E t \in 1..NumThreads, l \in 1..NumLoggers : ConsoleWriteCall(t, l)
    \/ \E t \in 1..NumThreads : MutexLock(t)
    \/ \E t \in 1..NumThreads : FdWriteLock(t)
    \/ \E t \in 1..NumThreads : WriteChunk(t)
    \/ \E t \in 1..NumThreads : WriteReturns(t)

SpecConc == InitConc /\ [][NextConc]_vars

\* --------------------------------------------------------------------- C9
InStdoutWrite == {t \in DOMAIN thr : thr[t].pc \in {"writing", "written"}}

InConsoleWrite(l) ==
    {t \in DOMAIN thr : thr[t].lg = l /\ thr[t].pc \in {"inWrite", "writing", "written"}}

\* C9: at most one goroutine is inside a write to standard output, at most
\* one is inside the Write of any one logger's console write target, and the
\* parts of every record are next to each other in standard output.
C9_ConsoleWritesExclusive ==
    /\ Cardinality(InStdoutWrite) <= 1
    /\ \A l \in DOMAIN loggers : Cardinality(InConsoleWrite(l)) <= 1
    /\ \A i \in 1..Len(stdout) :
         IF stdout[i].part = 1
         THEN i = 1 \/ stdout[i - 1].part = Chunks
         ELSE /\ i > 1
              /\ stdout[i - 1].rec = stdout[i].rec
              /\ stdout[i - 1].part = stdout[i].part - 1

C9_Witness ==
    \E t1, t2 \in DOMAIN thr :
        /\ thr[t1].pc = "writing" /\ thr[t1].part = Chunks
        /\ thr[t2].pc = "call" /\ thr[t2].lg = thr[t1].lg
        /\ Len(stdout) >= 1

====
